---- MODULE Spec2Model ----
(***************************************************************************)
(* Model of scripts/fetch_arxiv_inspire.py: the arXiv fetch / deduplicate  *)
(* / year-bucket / INSPIRE-enrich / write pipeline of main(), run after    *)
(* run against one persistent INSPIRE cache file.                          *)
(*                                                                         *)
(* Strings that the code splits or compares are sequences of chunks.  In   *)
(* an arXiv identifier the chunk "v" is the letter v and every other chunk *)
(* is a v-free substring, so <<"1234.5678","v","2">> is "1234.5678v2".  A  *)
(* timestamp is a sequence of one-character chunks.  A Python dict is a    *)
(* function whose DOMAIN is the set of keys that are present.              *)
(*                                                                         *)
(* Functions examined apart from main() have a specification of their own: *)
(* the identifier normalisation (SpecKey), add_entry on a stream and its   *)
(* reordering (SpecFeed), the processing of one INSPIRE hit (SpecHit),     *)
(* build_dataset_and_download of scripts/get_doe_science.py (SpecDoe) and  *)
(* the download loop of scripts/fetch_arxiv_sources_and_extract_figures.py *)
(* (SpecSrc, SpecSrcLive).                                                 *)
(***************************************************************************)
EXTENDS Integers, Sequences, FiniteSets, TLC

VARIABLES
    pc,               \* position of the run inside main()
    names,            \* number of member names of main.names
    idx,              \* index of the next author of the names loop
    seen,             \* main.seen: raw arXiv ids absorbed in this run
    year_buckets,     \* main.year_buckets: year -> list of absorbed entries
    years_to_write,   \* main.years_to_write
    yleft,            \* years the per-year loop has still to write
    inspire_cache,    \* main.inspire_cache, the in-memory mapping
    disk,             \* content of the cache file args.inspire_cache
    arxiv_to_enrich,  \* main.arxiv_to_enrich after deduplication
    batch_size,       \* main.batch_size
    i,                \* offset of the next batch in arxiv_to_enrich
    all_entries,      \* main.all_entries
    year_files,       \* per-year payloads written in this run
    top_file,         \* the top-N payload written in this run
    cacheAtLoad,      \* history: the mapping load_inspire_cache returned
    queried,          \* history: keys sent in a batch query in this run
    failedKeys,       \* history: keys of the batches whose query failed
    prevFailed,       \* history: failedKeys of the previous run
    lastBatch,        \* history: the batch just processed, its outcome and hits
    diskAtSave,       \* history: file content when save_inspire_cache began
    saveStatus,       \* history: how save_inspire_cache ended
    membersFile,      \* history: what load_members found
    lastQuery,        \* history: outcome of the last arXiv query of the names loop
    yearArgs,         \* history: the year selection args carried
    writeLog,         \* history: the output files written, in order
    top_n,            \* args.top_n as write_top_file received it
    kx, ky, kz,       \* identifier under normalisation, its key, the key's key
    stream, stream2,  \* a stream of candidate entries, and a reordering of it
    seen2,            \* the seen set of the deduplicator fed with stream2
    added, added2,    \* ids for which add_entry returned True, per stream
    hit_meta, hit_out,\* metadata of one INSPIRE hit, and the mapping it yields
    cacheIO,          \* history: the reads and writes of the cache file, in order
    slept,            \* history: the delay executed at the end of the last loop iteration
    doe_items,        \* build_dataset_and_download.items
    doe_i,            \* number of items the loop over items has taken
    seen_titles,      \* build_dataset_and_download.seen_titles
    final,            \* build_dataset_and_download.final
    fetched,          \* history: the item pages fetched, and how each fetch ended
    doe_json,         \* content of the file out_json
    src_n,            \* len(ARXIV_IDS)
    src_k,            \* number of papers main has taken from ARXIV_IDS
    attempt,          \* download_arxiv_source.attempt: attempts made for the paper
    tries,            \* history: how each attempt for the paper ended
    dl,               \* what download_arxiv_source returned for the paper
    tempd,            \* extract_from_arxiv.tempd, the paper's temporary directory
    tarball,          \* the file dest_path
    results           \* what extract_from_arxiv returned, paper after paper

vars == <<pc, names, idx, seen, year_buckets, years_to_write, yleft, inspire_cache,
          disk, arxiv_to_enrich, batch_size, i, all_entries, year_files,
          top_file, cacheAtLoad, queried, failedKeys, prevFailed, lastBatch,
          diskAtSave, saveStatus, membersFile, lastQuery, yearArgs, writeLog,
          top_n, kx, ky, kz, stream, stream2, seen2, added, added2,
          hit_meta, hit_out, cacheIO, slept,
          doe_items, doe_i, seen_titles, final, fetched, doe_json,
          src_n, src_k, attempt, tries, dl, tempd, tarball, results>>

\* ---------------------------------------------------------------- bounds
MaxAuthors == 2      \* number of member names of a run
MaxPerAuthor == 2    \* entries one arXiv response carries
MaxHits == 2         \* hits one INSPIRE response carries
MaxLen == 4          \* chunks of an identifier under normalisation
MaxStream == 3       \* entries of a stream fed to the deduplicator on its own
MaxFields == 2       \* fields of the metadata of a hit examined on its own
MaxItems == 3        \* items the list pages hand to build_dataset_and_download
MaxPapers == 2       \* identifiers in ARXIV_IDS

\* ------------------------------------------------------- general helpers
Range(s) == {s[n] : n \in 1..Len(s)}

SeqsUpTo(S, n) == UNION {[1..m -> S] : m \in 0..n}

EmptyDict == [x \in {} |-> 0]

Max(S) == CHOOSE x \in S : \A y \in S : y <= x

RECURSIVE SortedDesc(_)
\* sorted(S, reverse=True) of a set of integers
SortedDesc(S) == IF S = {} THEN <<>> ELSE <<Max(S)>> \o SortedDesc(S \ {Max(S)})

\* ----------------------------------------------- identifier normalisation
FirstV(aid) == CHOOSE n \in 1..Len(aid) : aid[n] = "v" /\ \A m \in 1..(n-1) : aid[m] # "v"

LastV(aid) == CHOOSE n \in 1..Len(aid) : aid[n] = "v" /\ \A m \in (n+1)..Len(aid) : aid[m] # "v"

\* a normalisation that cuts at the last "v": aid.rsplit("v", 1)[0]
NormAtLastV(aid) == IF "v" \in Range(aid) THEN SubSeq(aid, 1, LastV(aid) - 1) ELSE aid

\* aid.split("v")[0] if "v" in aid else aid
Norm(aid) == IF "v" \in Range(aid) THEN SubSeq(aid, 1, FirstV(aid) - 1) ELSE aid

\* ------------------------------------------------------------ timestamps
\* Unicode code point of a one-character chunk: Python compares str by it
CharCode(c) ==
    CASE c = "-" -> 45
      [] c = "0" -> 48 [] c = "1" -> 49 [] c = "2" -> 50 [] c = "3" -> 51
      [] c = "4" -> 52 [] c = "5" -> 53 [] c = "6" -> 54 [] c = "7" -> 55
      [] c = "8" -> 56 [] c = "9" -> 57
      [] c = "x" -> 120

IsDigit(c) == CharCode(c) >= 48 /\ CharCode(c) <= 57

RECURSIVE DigitsValue(_)
DigitsValue(s) ==
    IF s = <<>> THEN 0
    ELSE 10 * DigitsValue(SubSeq(s, 1, Len(s) - 1)) + (CharCode(s[Len(s)]) - 48)

\* pub[:4]
First4(pub) == SubSeq(pub, 1, IF Len(pub) < 4 THEN Len(pub) ELSE 4)

\* int(s) succeeds on an optional sign followed by one or more digits
IntParses(s) ==
    LET body == IF s # <<>> /\ s[1] = "-" THEN Tail(s) ELSE s
    IN  body # <<>> /\ \A n \in 1..Len(body) : IsDigit(body[n])

IntValue(s) ==
    IF s[1] = "-" THEN 0 - DigitsValue(Tail(s)) ELSE DigitsValue(s)

\* datetime.utcnow().year / datetime.now(timezone.utc).year during the runs
CurrentYear == 2021

\* year = int(pub[:4]), except: year = datetime.utcnow().year
YearOf(pub) == IF IntParses(First4(pub)) THEN IntValue(First4(pub)) ELSE CurrentYear

RECURSIVE StrLess(_, _)
\* a < b for Python str: lexicographic by code point, a proper prefix first
StrLess(a, b) ==
    IF b = <<>> THEN FALSE
    ELSE IF a = <<>> THEN TRUE
    ELSE IF a[1] # b[1] THEN CharCode(a[1]) < CharCode(b[1])
    ELSE StrLess(Tail(a), Tail(b))

\* ---------------------------------------------------------------- entries
T0301 == <<"2","0","2","0","-","0","3","-","0","1">>
T1115 == <<"2","0","2","0","-","1","1","-","1","5">>
T0101 == <<"2","0","2","0","-","0","1","-","0","1">>
T2021 == <<"2","0","2","1","-","0","2","-","0","3">>

HepLat == <<<<"hep-lat">>>>
HepPh  == <<<<"hep-ph">>>>

\* The entries parse_atom can hand to add_entry in a run
Feed ==
    { [id |-> <<"1234.5678">>,          published |-> T0301, categories |-> HepLat],
      [id |-> <<"1234.5678","v","2">>,  published |-> T1115, categories |-> HepLat],
      [id |-> <<"1111.2222","v","1">>,  published |-> T2021, categories |-> HepLat],
      [id |-> <<"3333.4444">>,          published |-> T0101, categories |-> HepPh],
      [id |-> <<>>,                     published |-> <<>>,  categories |-> HepLat] }

\* c.lower() of one chunk of a category term
Lower(chunk) ==
    CASE chunk = "HEP-LAT"  -> "hep-lat"
      [] chunk = "Citation" -> "citation"
      [] OTHER              -> chunk

\* any("hep-lat" in c for c in cats), cats the lower-cased category terms
is_hep_lat(ent) ==
    \E n \in 1..Len(ent.categories) :
        \E m \in 1..Len(ent.categories[n]) : Lower(ent.categories[n][m]) = "hep-lat"

\* year_buckets.get(y, [])
Bucket(buckets, y) == IF y \in DOMAIN buckets THEN buckets[y] ELSE <<>>

\* an add_entry that rejects the entry whose timestamp gives no year
add_entry_strict(st, ent) ==
    IF ent.id = <<>> \/ ent.id \in st.seen THEN st
    ELSE IF ~is_hep_lat(ent) THEN st
    ELSE IF ~IntParses(First4(ent.published)) THEN st
    ELSE LET year == YearOf(ent.published)
         IN  [seen    |-> st.seen \cup {ent.id},
              buckets |-> (year :> Append(Bucket(st.buckets, year), ent)) @@ st.buckets]

\* main.add_entry applied to the deduplicator state st = [seen, buckets]
add_entry(st, ent) ==
    IF ent.id = <<>> \/ ent.id \in st.seen THEN st
    ELSE IF ~is_hep_lat(ent) THEN st
    ELSE LET year == YearOf(ent.published)
         IN  [seen    |-> st.seen \cup {ent.id},
              buckets |-> (year :> Append(Bucket(st.buckets, year), ent)) @@ st.buckets]

RECURSIVE AbsorbAll(_, _)
\* for ent in entries: add_entry(ent)
AbsorbAll(st, entries) ==
    IF entries = <<>> THEN st
    ELSE AbsorbAll(add_entry(st, Head(entries)), Tail(entries))

\* ------------------------------------------------------------- cache file
\* JSON text of one enrichment result: its members, as name/value pairs
ObjectText(d) == {<<f, d[f]>> : f \in DOMAIN d}

\* the dict an object text parses to
ObjectOf(t) == [f \in {q[1] : q \in t} |-> (CHOOSE q \in t : q[1] = f)[2]]

\* a serialisation that leaves out the keys whose result is empty
JsonDumpNonEmpty(m) == {<<k, ObjectText(m[k])>> : k \in {j \in DOMAIN m : DOMAIN m[j] # {}}}

\* json.dump(cache, f, indent=2, ensure_ascii=False): the text of the cache,
\* one member per key, up to the order of the members and to white space
JsonDump(m) == {<<k, ObjectText(m[k])>> : k \in DOMAIN m}

\* json.load(f) of a text json.dump wrote
JsonLoad(t) == [k \in {p[1] : p \in t} |-> ObjectOf((CHOOSE p \in t : p[1] = k)[2])]

NoFile      == [kind |-> "missing", text |-> {}]
PartialFile == [kind |-> "partial", text |-> {}]
JsonFile(m) == [kind |-> "json", text |-> JsonDump(m)]

\* load_inspire_cache: json.load of the file; {} when the file is missing
\* (FileNotFoundError) or does not parse (any other exception)
load_inspire_cache(file) == IF file.kind = "json" THEN JsonLoad(file.text) ELSE EmptyDict

\* ------------------------------------------------------------ enrichment
\* a test that takes any cache entry, an empty one too, for a result
HasEntry(cache, norm) == norm \in DOMAIN cache

\* inspire_cache.get(norm) followed by "if existing and existing != {}: continue"
HasResult(cache, norm) == norm \in DOMAIN cache /\ DOMAIN cache[norm] # {}

\* a scheduling that looks up every entry, whatever the cache holds
ScheduledAlways(cache, ent) == IF ent.id = <<>> THEN <<>> ELSE <<Norm(ent.id)>>

\* norm of ent's id when the entry is scheduled for lookup, as a 0/1-list
Scheduled(cache, ent) ==
    IF ent.id = <<>> THEN <<>>
    ELSE IF HasResult(cache, Norm(ent.id)) THEN <<>>
    ELSE <<Norm(ent.id)>>

RECURSIVE ScheduledOfBucket(_, _)
ScheduledOfBucket(cache, entries) ==
    IF entries = <<>> THEN <<>>
    ELSE Scheduled(cache, Head(entries)) \o ScheduledOfBucket(cache, Tail(entries))

RECURSIVE ScheduledOfYears(_, _, _)
\* for y in sorted(years_to_write, reverse=True): for ent in year_buckets.get(y, [])
ScheduledOfYears(cache, buckets, ys) ==
    IF ys = <<>> THEN <<>>
    ELSE ScheduledOfBucket(cache, Bucket(buckets, Head(ys)))
             \o ScheduledOfYears(cache, buckets, Tail(ys))

\* a list left as it is, repetitions included
KeepRepeats(l) == l

RECURSIVE FromKeys(_)
\* list(dict.fromkeys(l)): the first occurrence of each key, in order
FromKeys(l) ==
    IF l = <<>> THEN <<>>
    ELSE LET init == FromKeys(SubSeq(l, 1, Len(l) - 1))
         IN  IF l[Len(l)] \in Range(init) THEN init ELSE Append(init, l[Len(l)])

\* A JSON value of a hit's metadata: its type t, its number v (an integer;
\* 1/0 for true/false; the length of a string) and, for an object, its
\* members in order.  A field name is a chunk sequence in which the chunks
\* "citation", "Citation" and "cited" are those words and no other chunk
\* holds them.
Val(t, v, items) == [t |-> t, v |-> v, items |-> items]

IntV(n)  == Val("int", n, <<>>)
BoolV(b) == Val("bool", b, <<>>)
StrV(n)  == Val("str", n, <<>>)
DictV(items) == Val("dict", 0, items)

\* isinstance(x, int): bool is a subclass of int
IsInt(x) == x.t \in {"int", "bool"}

\* bool(x)
Truthy(x) == IF x.t = "dict" THEN x.items # <<>> ELSE x.v # 0

\* d.get(name), as a 0/1-list
Get(items, name) ==
    LET at == {n \in 1..Len(items) : items[n][1] = name}
    IN  IF at = {} THEN <<>> ELSE <<items[CHOOSE n \in at : TRUE][2]>>

\* a.get(x) or b: the first operand when it is present and truthy
OrElse(got, other) == IF got # <<>> /\ Truthy(got[1]) THEN got[1] ELSE other

RECURSIVE FirstInt(_)
\* for subk, subv in d.items(): if isinstance(subv, int): take it, break
FirstInt(items) ==
    IF items = <<>> THEN <<>>
    ELSE IF IsInt(Head(items)[2]) THEN <<Head(items)[2].v>>
    ELSE FirstInt(Tail(items))

\* "citation" in kl or "cited" in kl, kl = str(k).lower()
NamesCitation(name) == \E n \in 1..Len(name) : Lower(name[n]) \in {"citation", "cited"}

RECURSIVE ScanMeta(_)
\* lines 461-474: the scan over meta.items()
ScanMeta(items) ==
    IF items = <<>> THEN <<>>
    ELSE LET k == Head(items)[1]
             v == Head(items)[2]
             here == IF ~NamesCitation(k) THEN <<>>
                     ELSE IF IsInt(v) THEN <<v.v>>
                     ELSE IF v.t = "dict" THEN FirstInt(v.items)
                     ELSE <<>>
         IN  IF here # <<>> THEN here ELSE ScanMeta(Tail(items))

NCitationCount == <<"citation", "_count">>
NCitations     == <<"citation", "s">>
NCitation      == <<"citation">>
NCitedBy       == <<"cited", "_by">>

\* lines 442-474: cit_count as a 0/1-list, <<>> for None
cit_count(meta) ==
    LET direct == Get(meta, NCitationCount)
        cands  == OrElse(Get(meta, NCitations),
                    OrElse(Get(meta, NCitation),
                      OrElse(Get(meta, NCitedBy), DictV(<<>>))))
        nested == IF cands.t = "dict" THEN FirstInt(cands.items)
                  ELSE IF IsInt(cands) THEN <<cands.v>>
                  ELSE <<>>
    IN  IF direct # <<>> /\ IsInt(direct[1]) THEN <<direct[1].v>>
        ELSE IF nested # <<>> THEN nested
        ELSE ScanMeta(meta)

\* The hits an INSPIRE response can carry.  "arxiv" is arxiv_val, the value
\* found under arxiv_eprints / ids; a hit without it is skipped.  "meta" is
\* the rest of the hit's metadata.
HitPool ==
    { [id |-> "451647", arxiv |-> <<"1234.5678","v","1">>,
       meta |-> <<<<NCitationCount, IntV(7)>>>>],
      [arxiv |-> <<"1234.5678">>],
      [id |-> "892120", arxiv |-> <<"1111.2222">>,
       meta |-> <<<<NCitations, DictV(<<<<<<"total">>, IntV(7)>>>>)>>>>],
      [id |-> "100001"] }

\* out of one hit: control_number, inspire_url, citation_count where present
HitOut(h) ==
    (IF "id" \in DOMAIN h
        THEN [control_number |-> h.id,
              inspire_url    |-> <<"https://inspirehep.net/literature/", h.id>>]
        ELSE EmptyDict)
    @@ (IF "meta" \in DOMAIN h /\ cit_count(h.meta) # <<>>
        THEN [citation_count |-> cit_count(h.meta)[1]]
        ELSE EmptyDict)

\* a mapping keyed by the hit's identifier as it came, version suffix included
HitKeyRaw(h) == h.arxiv

\* the key under which a hit is stored in mapping
HitKey(h) == Norm(h.arxiv)

RECURSIVE HitsMapping(_)
\* the loop "for h in hits: ... mapping[norm_id] = out" (a later hit overwrites)
HitsMapping(hits) ==
    IF hits = <<>> THEN EmptyDict
    ELSE LET h    == hits[Len(hits)]
             rest == HitsMapping(SubSeq(hits, 1, Len(hits) - 1))
         IN  IF "arxiv" \notin DOMAIN h THEN rest
             ELSE (HitKey(h) :> HitOut(h)) @@ rest

\* query_inspire_batch: {} on a request error, else the mapping of the hits
query_inspire_batch(outcome, hits) ==
    IF outcome = "fail" THEN EmptyDict ELSE HitsMapping(hits)

\* info = mapping.get(aid) or {}
InfoFor(mapping, aid) ==
    IF aid \in DOMAIN mapping /\ DOMAIN mapping[aid] # {} THEN mapping[aid] ELSE EmptyDict

\* for aid in batch: inspire_cache[aid] = mapping.get(aid) or {}
StoreBatch(cache, batch, mapping) ==
    [k \in DOMAIN cache \cup Range(batch) |->
        IF k \in Range(batch) THEN InfoFor(mapping, k) ELSE cache[k]]

\* ----------------------------------------------------------------- output
\* an attachment that adds the field for every cache entry, empty ones too
AttachAnyEntry(cache, ent) ==
    IF ent.id # <<>> /\ Norm(ent.id) \in DOMAIN cache
    THEN [out |-> ("inspire" :> cache[Norm(ent.id)]) @@ ent, stored |-> ent]
    ELSE [out |-> ent, stored |-> ent]

\* an attachment without the copy "ent = dict(ent)": the bucket's entry is changed
AttachInPlace(cache, ent) ==
    IF ent.id # <<>> /\ HasResult(cache, Norm(ent.id))
    THEN [out    |-> ("inspire" :> cache[Norm(ent.id)]) @@ ent,
          stored |-> ("inspire" :> cache[Norm(ent.id)]) @@ ent]
    ELSE [out |-> ent, stored |-> ent]

\* the entry appended to enriched, and the entry left in year_buckets
Attach(cache, ent) ==
    IF ent.id # <<>> /\ HasResult(cache, Norm(ent.id))
    THEN [out |-> ("inspire" :> cache[Norm(ent.id)]) @@ ent, stored |-> ent]
    ELSE [out |-> ent, stored |-> ent]

AttachAll(cache, entries) == [n \in 1..Len(entries) |-> Attach(cache, entries[n])]

RECURSIVE InsertAsc(_, _)
\* an insertion for a sort without reverse=True: ascending order
InsertAsc(sorted, e) ==
    IF sorted = <<>> THEN <<e>>
    ELSE IF StrLess(e.published, Head(sorted).published) THEN <<e>> \o sorted
    ELSE <<Head(sorted)>> \o InsertAsc(Tail(sorted), e)

RECURSIVE InsertDesc(_, _)
\* place e behind every entry whose published is >= e's
InsertDesc(sorted, e) ==
    IF sorted = <<>> THEN <<e>>
    ELSE IF StrLess(Head(sorted).published, e.published) THEN <<e>> \o sorted
    ELSE <<Head(sorted)>> \o InsertDesc(Tail(sorted), e)

RECURSIVE SortByPublished(_)
\* sorted(l, key=lambda e: e.get("published", ""), reverse=True): stable
SortByPublished(l) ==
    IF l = <<>> THEN <<>>
    ELSE InsertDesc(SortByPublished(SubSeq(l, 1, Len(l) - 1)), l[Len(l)])

\* a cut that keeps the whole list
TakeAll(l, n) == l

\* entries[:top_n]
Take(l, n) == SubSeq(l, 1, IF n < Len(l) THEN n ELSE Len(l))

\* payload of write_year_file
YearPayload(entries) == [count |-> Len(entries), publications |-> entries]

\* payload of write_top_file
TopPayload(entries, n) == [count |-> Len(entries), publications |-> Take(entries, n)]

\* ------------------------------------------------------- inputs of a run
ArgYears == {2020, 2021}          \* values of --year
ArgRanges == {<<2020, 2021>>, <<2021, 2020>>}   \* values of --range START END
ArgStartYears == {2020}           \* values of --start-year
ArgBatchSizes == {-1, 0, 1, 2}       \* values of --inspire-batch-size
ArgTopN == {1, 5}                 \* values of --top-n

NoBatch == [keys |-> <<>>, outcome |-> "none", hits |-> <<>>]

\* ------------------------------------------------------------------ state
keyVars == <<kx, ky, kz>>

dedupVars == <<stream, stream2, seen2, added, added2>>

hitVars == <<hit_meta, hit_out>>

doeVars == <<doe_items, doe_i, seen_titles, final, fetched, doe_json>>

srcVars == <<src_n, src_k, attempt, tries, dl, tempd, tarball, results>>

\* the variables of the functions examined apart from main()
toolVars == <<hitVars, doeVars, srcVars>>

sideVars == <<toolVars, cacheIO, slept>>

\* the variables of main(), its position excepted
mainVars == <<names, idx, seen, year_buckets, years_to_write, yleft, inspire_cache,
              disk, arxiv_to_enrich, batch_size, i, all_entries, year_files,
              top_file, cacheAtLoad, queried, failedKeys, prevFailed, lastBatch,
              diskAtSave, saveStatus, membersFile, lastQuery, yearArgs, writeLog,
              top_n>>

NoYearArgs == [mode |-> "unread", a |-> 0, b |-> 0]

\* A fresh process: nothing of the previous run is left but the cache file
StartOfRun(file, failedBefore) ==
    /\ names = 0
    /\ idx = 0
    /\ seen = {}
    /\ year_buckets = EmptyDict
    /\ years_to_write = {}
    /\ yleft = <<>>
    /\ inspire_cache = EmptyDict
    /\ disk = file
    /\ arxiv_to_enrich = <<>>
    /\ batch_size = 1
    /\ i = 0
    /\ all_entries = <<>>
    /\ year_files = EmptyDict
    /\ top_file = YearPayload(<<>>)
    /\ cacheAtLoad = EmptyDict
    /\ queried = {}
    /\ failedKeys = {}
    /\ prevFailed = failedBefore
    /\ lastBatch = NoBatch
    /\ diskAtSave = NoFile
    /\ saveStatus = "none"
    /\ membersFile = "unread"
    /\ lastQuery = "none"
    /\ yearArgs = NoYearArgs
    /\ writeLog = <<>>
    /\ top_n = 0

NoStreams ==
    /\ stream = <<>>
    /\ stream2 = <<>>
    /\ seen2 = {}
    /\ added = <<>>
    /\ added2 = <<>>

NoDoe ==
    /\ doe_items = <<>>
    /\ doe_i = 0
    /\ seen_titles = {}
    /\ final = <<>>
    /\ fetched = <<>>
    /\ doe_json = <<>>

NoSrc ==
    /\ src_n = 0
    /\ src_k = 0
    /\ attempt = 0
    /\ tries = <<>>
    /\ dl = "none"
    /\ tempd = "none"
    /\ tarball = "absent"
    /\ results = <<>>

NoSide ==
    /\ hit_meta = <<>>
    /\ hit_out = EmptyDict
    /\ cacheIO = <<>>
    /\ slept = "none"
    /\ NoDoe
    /\ NoSrc

Init ==
    /\ pc = "start"
    /\ StartOfRun(NoFile, {})
    /\ kx = <<>> /\ ky = <<>> /\ kz = <<>>
    /\ NoStreams
    /\ NoSide

\* a load_members that returns no names when no members file is found
LoadMembersLenient ==
    /\ pc = "start"
    /\ \E found \in BOOLEAN :
         IF found
         THEN \E n \in 0..MaxAuthors :
                 /\ names' = n
                 /\ pc' = IF n = 0 THEN "years" ELSE "authors"
                 /\ membersFile' = "found"
         ELSE /\ pc' = "years"
              /\ names' = 0
              /\ membersFile' = "missing"
    /\ UNCHANGED <<idx, seen, year_buckets, years_to_write, yleft, inspire_cache,
                   disk, arxiv_to_enrich, batch_size, i, all_entries, year_files,
                   top_file, cacheAtLoad, queried, failedKeys, prevFailed,
                   lastBatch, diskAtSave, saveStatus, keyVars,
                   lastQuery, yearArgs, writeLog, top_n, dedupVars, sideVars>>

\* main, lines 510-526: load_members raises when no members file is found
LoadMembers ==
    /\ pc = "start"
    /\ \E found \in BOOLEAN :
         IF found
         THEN \E n \in 0..MaxAuthors :
                 /\ names' = n
                 /\ pc' = IF n = 0 THEN "years" ELSE "authors"
         ELSE /\ pc' = "exit2"
              /\ names' = names
    /\ membersFile' = IF pc' = "exit2" THEN "missing" ELSE "found"
    /\ UNCHANGED <<idx, seen, year_buckets, years_to_write, yleft, inspire_cache,
                   disk, arxiv_to_enrich, batch_size, i, all_entries, year_files,
                   top_file, cacheAtLoad, queried, failedKeys, prevFailed,
                   lastBatch, diskAtSave, saveStatus, keyVars,
                   lastQuery, yearArgs, writeLog, top_n, dedupVars, sideVars>>

\* a names loop without the try/except: a failed query ends the run
QueryAuthorAborting ==
    /\ pc = "authors"
    /\ \E ok \in BOOLEAN :
         IF ok
         THEN \E entries \in SeqsUpTo(Feed, MaxPerAuthor) :
                 LET st == AbsorbAll([seen |-> seen, buckets |-> year_buckets], entries)
                 IN  /\ seen' = st.seen
                     /\ year_buckets' = st.buckets
                     /\ lastQuery' = "ok"
         ELSE /\ UNCHANGED <<seen, year_buckets>>
              /\ lastQuery' = "fail"
    /\ idx' = idx + 1
    /\ pc' = IF lastQuery' = "fail" THEN "exit2"
             ELSE IF idx' >= names THEN "years" ELSE "authors"
    /\ slept' = "delay"
    /\ UNCHANGED <<names, years_to_write, yleft, inspire_cache, disk,
                   arxiv_to_enrich, batch_size, i, all_entries, year_files,
                   top_file, cacheAtLoad, queried, failedKeys, prevFailed,
                   lastBatch, diskAtSave, saveStatus, keyVars,
                   membersFile, yearArgs, writeLog, top_n, dedupVars, toolVars, cacheIO>>

\* a names loop whose except clause goes on to the next name at once,
\* without the sleep
QueryAuthorHasty ==
    /\ pc = "authors"
    /\ \E ok \in BOOLEAN :
         IF ok
         THEN \E entries \in SeqsUpTo(Feed, MaxPerAuthor) :
                 LET st == AbsorbAll([seen |-> seen, buckets |-> year_buckets], entries)
                 IN  /\ seen' = st.seen
                     /\ year_buckets' = st.buckets
                     /\ lastQuery' = "ok"
         ELSE /\ UNCHANGED <<seen, year_buckets>>
              /\ lastQuery' = "fail"
    /\ idx' = idx + 1
    /\ pc' = IF idx' >= names THEN "years" ELSE "authors"
    /\ slept' = (IF lastQuery' = "fail" THEN "none" ELSE "delay")
    /\ UNCHANGED <<names, years_to_write, yleft, inspire_cache, disk,
                   arxiv_to_enrich, batch_size, i, all_entries, year_files,
                   top_file, cacheAtLoad, queried, failedKeys, prevFailed,
                   lastBatch, diskAtSave, saveStatus, keyVars,
                   membersFile, yearArgs, writeLog, top_n, dedupVars, toolVars, cacheIO>>

\* main, lines 547-558: one iteration of the loop over names
QueryAuthor ==
    /\ pc = "authors"
    /\ \E ok \in BOOLEAN :
         IF ok
         THEN \E entries \in SeqsUpTo(Feed, MaxPerAuthor) :
                 LET st == AbsorbAll([seen |-> seen, buckets |-> year_buckets], entries)
                 IN  /\ seen' = st.seen
                     /\ year_buckets' = st.buckets
                     /\ lastQuery' = "ok"
         ELSE /\ UNCHANGED <<seen, year_buckets>>
              /\ lastQuery' = "fail"
    /\ idx' = idx + 1
    /\ pc' = IF idx' >= names THEN "years" ELSE "authors"
    /\ slept' = "delay"
    /\ UNCHANGED <<names, years_to_write, yleft, inspire_cache, disk,
                   arxiv_to_enrich, batch_size, i, all_entries, year_files,
                   top_file, cacheAtLoad, queried, failedKeys, prevFailed,
                   lastBatch, diskAtSave, saveStatus, keyVars,
                   membersFile, yearArgs, writeLog, top_n, dedupVars, toolVars, cacheIO>>

\* the year selections the command line can carry: none, --year a,
\* --range a b, or --all-years with --start-year a
YearRequests ==
    {[mode |-> "none", a |-> 0, b |-> 0]}
    \cup {[mode |-> "year", a |-> y, b |-> 0] : y \in ArgYears}
    \cup {[mode |-> "range", a |-> r[1], b |-> r[2]] : r \in ArgRanges}
    \cup {[mode |-> "all", a |-> y, b |-> 0] : y \in ArgStartYears}

\* the years args.year / args.range / args.all_years ask for
RequestedYears(mode, a, b) ==
    CASE mode = "year"  -> {a}
      [] mode = "range" -> a..b
      [] mode = "all"   -> a..CurrentYear
      [] OTHER          -> {}

\* main, lines 560-573.  The names loop is over: its variables are not read
\* again and are cleared, as is the record of the last query.
SelectYears ==
    /\ pc = "years"
    /\ \E req \in YearRequests :
         /\ yearArgs' = req
         /\ years_to_write' =
                IF RequestedYears(req.mode, req.a, req.b) = {}
                THEN DOMAIN year_buckets
                ELSE RequestedYears(req.mode, req.a, req.b)
    /\ lastQuery' = "none"
    /\ names' = 0
    /\ idx' = 0
    /\ yleft' = SortedDesc(years_to_write')
    /\ pc' = "inspire"
    /\ slept' = "none"
    /\ UNCHANGED <<seen, year_buckets, inspire_cache, disk,
                   arxiv_to_enrich, batch_size, i, all_entries, year_files,
                   top_file, cacheAtLoad, queried, failedKeys, prevFailed,
                   lastBatch, diskAtSave, saveStatus, keyVars,
                   membersFile, writeLog, top_n, dedupVars, toolVars, cacheIO>>

\* a load without the except clauses: an unreadable file ends the run
LoadCacheRaising ==
    /\ pc = "inspire"
    /\ inspire_cache' = load_inspire_cache(disk)
    /\ cacheAtLoad' = inspire_cache'
    /\ pc' = IF disk.kind = "json" THEN "build" ELSE "exit2"
    /\ cacheIO' = Append(cacheIO, "read")
    /\ UNCHANGED <<names, idx, seen, year_buckets, years_to_write, yleft, disk,
                   arxiv_to_enrich, batch_size, i, all_entries, year_files,
                   top_file, queried, failedKeys, prevFailed, lastBatch,
                   diskAtSave, saveStatus, keyVars,
                   membersFile, lastQuery, yearArgs, writeLog, top_n, dedupVars, toolVars, slept>>

\* main, lines 580-582: args.no_inspire is false
LoadCache ==
    /\ pc = "inspire"
    /\ inspire_cache' = load_inspire_cache(disk)
    /\ cacheAtLoad' = inspire_cache'
    /\ pc' = "build"
    /\ cacheIO' = Append(cacheIO, "read")
    /\ UNCHANGED <<names, idx, seen, year_buckets, years_to_write, yleft, disk,
                   arxiv_to_enrich, batch_size, i, all_entries, year_files,
                   top_file, queried, failedKeys, prevFailed, lastBatch,
                   diskAtSave, saveStatus, keyVars,
                   membersFile, lastQuery, yearArgs, writeLog, top_n, dedupVars, toolVars, slept>>

\* main, lines 584-603
BuildEnrichList ==
    /\ pc = "build"
    /\ arxiv_to_enrich' =
           FromKeys(ScheduledOfYears(inspire_cache, year_buckets, SortedDesc(years_to_write)))
    /\ \E size \in ArgBatchSizes : batch_size' = IF size < 1 THEN 1 ELSE size
    /\ i' = 0
    /\ pc' = IF arxiv_to_enrich' = <<>> THEN "attach" ELSE "batch"
    /\ UNCHANGED <<names, idx, seen, year_buckets, years_to_write, yleft,
                   inspire_cache, disk, all_entries, year_files, top_file,
                   cacheAtLoad, queried, failedKeys, prevFailed, lastBatch,
                   diskAtSave, saveStatus, keyVars,
                   membersFile, lastQuery, yearArgs, writeLog, top_n, dedupVars, sideVars>>

\* arxiv_to_enrich[i : i + batch_size]
BatchAt(l, at, size) ==
    SubSeq(l, at + 1, IF at + size < Len(l) THEN at + size ELSE Len(l))

\* a batch loop that saves the cache after every batch, as a checkpoint
BatchStepCheckpoint ==
    /\ pc = "batch"
    /\ LET batch == BatchAt(arxiv_to_enrich, i, batch_size)
       IN  /\ \E outcome \in {"ok", "fail", "raise"} :
                \E hits \in IF outcome = "ok" THEN SeqsUpTo(HitPool, MaxHits) ELSE {<<>>} :
                   /\ inspire_cache' =
                          IF outcome = "raise" THEN inspire_cache
                          ELSE StoreBatch(inspire_cache, batch,
                                          query_inspire_batch(outcome, hits))
                   /\ failedKeys' = IF outcome = "fail"
                                    THEN failedKeys \cup Range(batch) ELSE failedKeys
                   /\ lastBatch' = [keys |-> batch, outcome |-> outcome, hits |-> hits]
           /\ queried' = queried \cup Range(batch)
    /\ i' = i + batch_size
    /\ pc' = IF i' >= Len(arxiv_to_enrich) THEN "attach" ELSE "batch"
    /\ slept' = "batch_delay"
    /\ disk' = JsonFile(inspire_cache')
    /\ cacheIO' = Append(cacheIO, "write")
    /\ UNCHANGED <<names, idx, seen, year_buckets, years_to_write, yleft,
                   arxiv_to_enrich, batch_size, all_entries, year_files,
                   top_file, cacheAtLoad, prevFailed, diskAtSave, saveStatus,
                   keyVars,
                   membersFile, lastQuery, yearArgs, writeLog, top_n, dedupVars, toolVars>>

\* main, lines 605-617: one iteration of the loop over the batches.  The
\* request fails ("fail": query_inspire_batch returns {}), or the response
\* makes query_inspire_batch raise ("raise": main's except), or it is
\* processed ("ok").
BatchStep ==
    /\ pc = "batch"
    /\ LET batch == BatchAt(arxiv_to_enrich, i, batch_size)
       IN  /\ \E outcome \in {"ok", "fail", "raise"} :
                \E hits \in IF outcome = "ok" THEN SeqsUpTo(HitPool, MaxHits) ELSE {<<>>} :
                   /\ inspire_cache' =
                          IF outcome = "raise" THEN inspire_cache
                          ELSE StoreBatch(inspire_cache, batch,
                                          query_inspire_batch(outcome, hits))
                   /\ failedKeys' = IF outcome = "fail"
                                    THEN failedKeys \cup Range(batch) ELSE failedKeys
                   /\ lastBatch' = [keys |-> batch, outcome |-> outcome, hits |-> hits]
           /\ queried' = queried \cup Range(batch)
    /\ i' = i + batch_size
    /\ pc' = IF i' >= Len(arxiv_to_enrich) THEN "attach" ELSE "batch"
    /\ slept' = "batch_delay"
    /\ UNCHANGED <<names, idx, seen, year_buckets, years_to_write, yleft, disk,
                   arxiv_to_enrich, batch_size, all_entries, year_files,
                   top_file, cacheAtLoad, prevFailed, diskAtSave, saveStatus,
                   keyVars,
                   membersFile, lastQuery, yearArgs, writeLog, top_n, dedupVars, toolVars, cacheIO>>

\* main, lines 621-635: one iteration of the loop over the years, with the
\* cache contents attached.  The batch loop is over: its variables are not
\* read again and are cleared.
WriteYearEnriched ==
    /\ pc = "attach"
    /\ yleft # <<>>
    /\ LET y        == Head(yleft)
           attached == AttachAll(inspire_cache, Bucket(year_buckets, y))
           enriched == [n \in 1..Len(attached) |-> attached[n].out]
           entries_sorted == SortByPublished(enriched)
       IN  /\ year_buckets' =
                  IF y \in DOMAIN year_buckets
                  THEN [year_buckets EXCEPT
                          ![y] = [n \in 1..Len(attached) |-> attached[n].stored]]
                  ELSE year_buckets
           /\ year_files' = (y :> YearPayload(entries_sorted)) @@ year_files
           /\ all_entries' = all_entries \o entries_sorted
    /\ writeLog' = Append(writeLog, [file |-> "year", year |-> Head(yleft)])
    /\ yleft' = Tail(yleft)
    /\ lastBatch' = NoBatch
    /\ batch_size' = 1
    /\ i' = 0
    /\ slept' = "none"
    /\ UNCHANGED <<pc, names, idx, seen, years_to_write, inspire_cache, disk,
                   arxiv_to_enrich, top_file, cacheAtLoad,
                   queried, failedKeys, prevFailed, diskAtSave,
                   saveStatus, keyVars,
                   membersFile, lastQuery, yearArgs, top_n, dedupVars, toolVars, cacheIO>>

\* save_inspire_cache, line 209: open(path, "w") either raises and leaves the
\* file alone, or truncates the file
SaveOpen ==
    /\ pc = "attach"
    /\ yleft = <<>>
    /\ diskAtSave' = disk
    /\ \E opened \in BOOLEAN :
         IF opened
         THEN /\ disk' = PartialFile
              /\ saveStatus' = "writing"
              /\ pc' = "dump"
         ELSE /\ disk' = disk
              /\ saveStatus' = "open_failed"
              /\ pc' = "top"
    /\ lastBatch' = NoBatch
    /\ batch_size' = 1
    /\ i' = 0
    /\ cacheIO' = Append(cacheIO, "write")
    /\ slept' = "none"
    /\ UNCHANGED <<names, idx, seen, year_buckets, years_to_write, yleft,
                   inspire_cache, arxiv_to_enrich, all_entries,
                   year_files, top_file, cacheAtLoad, queried, failedKeys,
                   prevFailed, keyVars,
                   membersFile, lastQuery, yearArgs, writeLog, top_n, dedupVars, toolVars>>

\* save_inspire_cache, lines 210-212: json.dump writes the whole mapping, or
\* raises after part of it was written; the exception is caught and printed
SaveDump ==
    /\ pc = "dump"
    /\ \E written \in BOOLEAN :
         IF written
         THEN /\ disk' = JsonFile(inspire_cache)
              /\ saveStatus' = "saved"
         ELSE /\ disk' = PartialFile
              /\ saveStatus' = "write_failed"
    /\ pc' = "top"
    /\ UNCHANGED <<names, idx, seen, year_buckets, years_to_write, yleft,
                   inspire_cache, arxiv_to_enrich, batch_size, i, all_entries,
                   year_files, top_file, cacheAtLoad, queried, failedKeys,
                   prevFailed, lastBatch, diskAtSave, keyVars,
                   membersFile, lastQuery, yearArgs, writeLog, top_n, dedupVars, sideVars>>

\* a --no-inspire branch that still loads the cache file
SkipInspireLoading ==
    /\ pc = "inspire"
    /\ pc' = "plain"
    /\ inspire_cache' = load_inspire_cache(disk)
    /\ cacheIO' = Append(cacheIO, "read")
    /\ UNCHANGED <<names, idx, seen, year_buckets, years_to_write, yleft,
                   disk, arxiv_to_enrich, batch_size, i,
                   all_entries, year_files, top_file, cacheAtLoad, queried,
                   failedKeys, prevFailed, lastBatch, diskAtSave, saveStatus,
                   keyVars,
                   membersFile, lastQuery, yearArgs, writeLog, top_n, dedupVars, toolVars, slept>>

\* main, lines 580 and 641: args.no_inspire is true
SkipInspire ==
    /\ pc = "inspire"
    /\ pc' = "plain"
    /\ UNCHANGED <<names, idx, seen, year_buckets, years_to_write, yleft,
                   inspire_cache, disk, arxiv_to_enrich, batch_size, i,
                   all_entries, year_files, top_file, cacheAtLoad, queried,
                   failedKeys, prevFailed, lastBatch, diskAtSave, saveStatus,
                   keyVars,
                   membersFile, lastQuery, yearArgs, writeLog, top_n, dedupVars, sideVars>>

\* main, lines 644-648: one iteration of the loop over the years, no_inspire
WriteYearPlain ==
    /\ pc = "plain"
    /\ yleft # <<>>
    /\ LET entries_sorted == SortByPublished(Bucket(year_buckets, Head(yleft)))
       IN  /\ year_files' = (Head(yleft) :> YearPayload(entries_sorted)) @@ year_files
           /\ all_entries' = all_entries \o entries_sorted
    /\ writeLog' = Append(writeLog, [file |-> "year", year |-> Head(yleft)])
    /\ yleft' = Tail(yleft)
    /\ UNCHANGED <<pc, names, idx, seen, year_buckets, years_to_write,
                   inspire_cache, disk, arxiv_to_enrich, batch_size, i, top_file,
                   cacheAtLoad, queried, failedKeys, prevFailed, lastBatch,
                   diskAtSave, saveStatus, keyVars,
                   membersFile, lastQuery, yearArgs, top_n, dedupVars, sideVars>>

\* main, lines 651-653
WriteTop ==
    /\ \/ pc = "top"
       \/ pc = "plain" /\ yleft = <<>>
    /\ \E n \in ArgTopN :
         /\ top_n' = n
         /\ top_file' = TopPayload(SortByPublished(all_entries), n)
    /\ writeLog' = Append(writeLog, [file |-> "top", year |-> 0])
    /\ pc' = "done"
    /\ UNCHANGED <<names, idx, seen, year_buckets, years_to_write, yleft,
                   inspire_cache, disk, arxiv_to_enrich, batch_size, i,
                   all_entries, year_files, cacheAtLoad, queried, failedKeys,
                   prevFailed, lastBatch, diskAtSave, saveStatus, keyVars,
                   membersFile, lastQuery, yearArgs, dedupVars, sideVars>>

\* The process has ended (main returned, or sys.exit(2) at line 677) and the
\* script is started again: only the cache file is carried over
NewRun ==
    /\ pc \in {"done", "exit2"}
    /\ pc' = "start"
    /\ names' = 0
    /\ idx' = 0
    /\ seen' = {}
    /\ year_buckets' = EmptyDict
    /\ years_to_write' = {}
    /\ yleft' = <<>>
    /\ inspire_cache' = EmptyDict
    /\ disk' = disk
    /\ arxiv_to_enrich' = <<>>
    /\ batch_size' = 1
    /\ i' = 0
    /\ all_entries' = <<>>
    /\ year_files' = EmptyDict
    /\ top_file' = YearPayload(<<>>)
    /\ cacheAtLoad' = EmptyDict
    /\ queried' = {}
    /\ failedKeys' = {}
    /\ prevFailed' = IF pc = "done" THEN failedKeys ELSE prevFailed
    /\ lastBatch' = NoBatch
    /\ diskAtSave' = NoFile
    /\ saveStatus' = "none"
    /\ membersFile' = "unread"
    /\ lastQuery' = "none"
    /\ yearArgs' = NoYearArgs
    /\ writeLog' = <<>>
    /\ top_n' = 0
    /\ cacheIO' = <<>>
    /\ slept' = "none"
    /\ UNCHANGED <<keyVars, dedupVars, toolVars>>

Next ==
    \/ LoadMembers
    \/ QueryAuthor
    \/ SelectYears
    \/ LoadCache
    \/ BuildEnrichList
    \/ BatchStep
    \/ WriteYearEnriched
    \/ SaveOpen
    \/ SaveDump
    \/ SkipInspire
    \/ WriteYearPlain
    \/ WriteTop
    \/ NewRun

Spec == Init /\ [][Next]_vars

\* ------------------------------------------- the normalisation on its own
KeyChunks == {"v", "2", "a/"}

InitKey ==
    /\ pc = "key"
    /\ StartOfRun(NoFile, {})
    /\ NoStreams
    /\ NoSide
    /\ kx \in SeqsUpTo(KeyChunks, MaxLen)
    /\ ky = <<>>
    /\ kz = <<>>

\* norm of an identifier (lines 399, 591, 627), and norm of that norm
NormalizeKey ==
    /\ pc = "key"
    /\ ky' = Norm(kx)
    /\ kz' = Norm(ky')
    /\ pc' = "keyed"
    /\ UNCHANGED <<names, idx, seen, year_buckets, years_to_write, yleft,
                   inspire_cache, disk, arxiv_to_enrich, batch_size, i,
                   all_entries, year_files, top_file, cacheAtLoad, queried,
                   failedKeys, prevFailed, lastBatch, diskAtSave, saveStatus, kx,
                   membersFile, lastQuery, yearArgs, writeLog, top_n, dedupVars, sideVars>>

NextKey == NormalizeKey

SpecKey == InitKey /\ [][NextKey]_vars

\* ------------------------- deduplicate, bucket and write, on a wider feed
TBad == <<"2","0","x","x","-","0","1","-","0","1">>

\* Feed, with a third record of 2020, records whose timestamp does not parse
\* and an upper-case category term
WideFeed ==
    Feed \cup
    { [id |-> <<"2222.3333">>, published |-> T0101, categories |-> <<<<"HEP-LAT">>>>],
      [id |-> <<"5555.6666">>, published |-> <<>>,  categories |-> HepLat],
      [id |-> <<"6666.7777","v","1">>, published |-> TBad, categories |-> HepLat] }

\* the reorderings of a stream
Reorderings(l) ==
    {[n \in 1..Len(l) |-> l[f[n]]] :
        f \in {g \in [1..Len(l) -> 1..Len(l)] : \A a, b \in 1..Len(l) : g[a] = g[b] => a = b}}

\* caches the attachment step can meet
FeedCaches ==
    {EmptyDict,
     (<<"1234.5678">> :> [control_number |-> "451647"]) @@ (<<"2222.3333">> :> EmptyDict)}

InitFeed ==
    /\ pc = "feed"
    /\ StartOfRun(NoFile, {})
    /\ kx = <<>> /\ ky = <<>> /\ kz = <<>>
    /\ stream \in SeqsUpTo(WideFeed, MaxStream)
    /\ stream2 \in Reorderings(stream)
    /\ seen2 = {}
    /\ added = <<>>
    /\ added2 = <<>>
    /\ NoSide

\* main, lines 552-554: add_entry on the next entry of the stream, and on
\* the next entry of its reordering in a second deduplicator
AbsorbNext ==
    /\ pc = "feed"
    /\ idx < Len(stream)
    /\ LET st  == add_entry([seen |-> seen, buckets |-> year_buckets], stream[idx + 1])
           st2 == add_entry([seen |-> seen2, buckets |-> EmptyDict], stream2[idx + 1])
       IN  /\ seen' = st.seen
           /\ year_buckets' = st.buckets
           /\ added' = Append(added, st.seen # seen)
           /\ seen2' = st2.seen
           /\ added2' = Append(added2, st2.seen # seen2)
    /\ idx' = idx + 1
    /\ UNCHANGED <<pc, names, years_to_write, yleft, inspire_cache, disk,
                   arxiv_to_enrich, batch_size, i, all_entries, year_files,
                   top_file, cacheAtLoad, queried, failedKeys, prevFailed,
                   lastBatch, diskAtSave, saveStatus, membersFile, lastQuery,
                   yearArgs, writeLog, top_n, keyVars, stream, stream2, sideVars>>

\* main, lines 572-573 and 580: no year selection; the years that received
\* records are written, with or without the cache contents attached
FeedDone ==
    /\ pc = "feed"
    /\ idx = Len(stream)
    /\ years_to_write' = DOMAIN year_buckets
    /\ yleft' = SortedDesc(years_to_write')
    /\ \E cache \in FeedCaches :
         /\ inspire_cache' = cache
         /\ pc' = IF cache = EmptyDict THEN "plain" ELSE "attach"
    /\ UNCHANGED <<names, idx, seen, year_buckets, disk, arxiv_to_enrich,
                   batch_size, i, all_entries, year_files, top_file,
                   cacheAtLoad, queried, failedKeys, prevFailed, lastBatch,
                   diskAtSave, saveStatus, membersFile, lastQuery, yearArgs,
                   writeLog, top_n, keyVars, dedupVars, sideVars>>

NextFeed ==
    \/ AbsorbNext
    \/ FeedDone
    \/ WriteYearPlain
    \/ WriteYearEnriched

SpecFeed == InitFeed /\ [][NextFeed]_vars

\* --------------------------------------- the metadata of one hit on its own
MetaNames == {NCitationCount, NCitations, NCitedBy, <<"Citation", "_Summary">>, <<"title">>}

MetaValues ==
    { IntV(7), IntV(3), IntV(0), BoolV(0), BoolV(1), StrV(2),
      DictV(<<>>),
      DictV(<<<<<<"total">>, IntV(7)>>>>),
      DictV(<<<<<<"list">>, StrV(2)>>, <<<<"n">>, IntV(3)>>>>),
      DictV(<<<<<<"open">>, BoolV(0)>>>>),
      DictV(<<<<<<"summary">>, DictV(<<>>)>>>>) }

\* the metadata objects: up to MaxFields fields, no name twice
MetaPool ==
    {m \in SeqsUpTo(MetaNames \X MetaValues, MaxFields) :
        \A a, b \in 1..Len(m) : m[a][1] = m[b][1] => a = b}

InitHit ==
    /\ pc = "hit"
    /\ StartOfRun(NoFile, {})
    /\ kx = <<>> /\ ky = <<>> /\ kz = <<>>
    /\ NoStreams
    /\ hit_meta \in MetaPool
    /\ hit_out = EmptyDict
    /\ cacheIO = <<>>
    /\ slept = "none"
    /\ NoDoe
    /\ NoSrc

\* query_inspire_batch, lines 371-503, on a response of one hit whose arXiv
\* identifier is 1111.2222 and whose other metadata is hit_meta
ProcessHit ==
    /\ pc = "hit"
    /\ hit_out' = query_inspire_batch("ok", <<[arxiv |-> <<"1111.2222">>, meta |-> hit_meta]>>)
    /\ pc' = "hitdone"
    /\ UNCHANGED <<mainVars, keyVars, dedupVars, hit_meta, cacheIO, slept, doeVars, srcVars>>

NextHit == ProcessHit

SpecHit == InitHit /\ [][NextHit]_vars

\* ------------------------ get_doe_science.py: build_dataset_and_download
\* A title is a sequence of chunks; the chunk " " is white space, the others
\* hold none.
DoeTitles == {<<>>, <<" ">>, <<"A">>, <<"A", " ">>, <<"B">>}

\* "" stands for an item without link
DoeLinks == {"", "https://science.osti.gov/h1"}

DoeItems == [title : DoeTitles, link : DoeLinks]

RECURSIVE LStrip(_)
LStrip(t) == IF t # <<>> /\ Head(t) = " " THEN LStrip(Tail(t)) ELSE t

RECURSIVE RStrip(_)
RStrip(t) == IF t # <<>> /\ t[Len(t)] = " " THEN RStrip(SubSeq(t, 1, Len(t) - 1)) ELSE t

\* (it.get("title") or "").strip()
StripTitle(t) == RStrip(LStrip(t))

\* image_file_rel is None
None == <<>>

\* how the fetch of an item page can end: the request raises or is answered
\* with another status than 200 ("error"), the page has no image
\* ("noimage"), download_image returns False ("dlfail") or True ("ok")
FetchOutcomes == {"error", "noimage", "dlfail", "ok"}

\* image_file_rel after the fetch of the page at link
ImageFileRel(link, outcome) ==
    IF outcome = "ok" THEN <<"figures", "doe-science", link>> ELSE None

InitDoe ==
    /\ pc = "doe"
    /\ StartOfRun(NoFile, {})
    /\ kx = <<>> /\ ky = <<>> /\ kz = <<>>
    /\ NoStreams
    /\ hit_meta = <<>>
    /\ hit_out = EmptyDict
    /\ cacheIO = <<>>
    /\ slept = "none"
    /\ NoSrc
    /\ doe_items \in SeqsUpTo(DoeItems, MaxItems)
    /\ doe_i = 0
    /\ seen_titles = {}
    /\ final = <<>>
    /\ fetched = <<>>
    /\ doe_json = <<>>

\* a loop body that appends the item whether or not it got an image
ProcessItemKeepAll ==
    /\ pc = "doe"
    /\ doe_i < Len(doe_items)
    /\ LET it    == doe_items[doe_i + 1]
           title == StripTitle(it.title)
       IN  IF title = <<>> \/ title \in seen_titles
           THEN UNCHANGED <<seen_titles, final, fetched>>
           ELSE /\ seen_titles' = seen_titles \cup {title}
                /\ \E outcome \in IF it.link # "" THEN FetchOutcomes ELSE {"nolink"} :
                      LET image_file_rel == ImageFileRel(it.link, outcome)
                      IN  /\ fetched' = IF it.link # ""
                                        THEN Append(fetched, [item |-> doe_i + 1, outcome |-> outcome])
                                        ELSE fetched
                          /\ final' = Append(final, [title |-> title, link |-> it.link,
                                                     image_file |-> image_file_rel])
    /\ doe_i' = doe_i + 1
    /\ UNCHANGED <<pc, mainVars, keyVars, dedupVars, hitVars, cacheIO, slept, srcVars,
                   doe_items, doe_json>>

\* build_dataset_and_download, lines 193-237: one iteration of the loop
ProcessItem ==
    /\ pc = "doe"
    /\ doe_i < Len(doe_items)
    /\ LET it    == doe_items[doe_i + 1]
           title == StripTitle(it.title)
       IN  IF title = <<>> \/ title \in seen_titles
           THEN UNCHANGED <<seen_titles, final, fetched>>
           ELSE /\ seen_titles' = seen_titles \cup {title}
                /\ \E outcome \in IF it.link # "" THEN FetchOutcomes ELSE {"nolink"} :
                      LET image_file_rel == ImageFileRel(it.link, outcome)
                      IN  /\ fetched' = IF it.link # ""
                                        THEN Append(fetched, [item |-> doe_i + 1, outcome |-> outcome])
                                        ELSE fetched
                          /\ final' = IF image_file_rel # None
                                      THEN Append(final, [title |-> title, link |-> it.link,
                                                          image_file |-> image_file_rel])
                                      ELSE final
    /\ doe_i' = doe_i + 1
    /\ UNCHANGED <<pc, mainVars, keyVars, dedupVars, hitVars, cacheIO, slept, srcVars,
                   doe_items, doe_json>>

\* build_dataset_and_download, lines 239-243: json.dump(final, f)
WriteDataset ==
    /\ pc = "doe"
    /\ doe_i = Len(doe_items)
    /\ doe_json' = final
    /\ pc' = "doedone"
    /\ UNCHANGED <<mainVars, keyVars, dedupVars, hitVars, cacheIO, slept, srcVars,
                   doe_items, doe_i, seen_titles, final, fetched>>

NextDoe ==
    \/ ProcessItem
    \/ WriteDataset

SpecDoe == InitDoe /\ [][NextDoe]_vars

\* ---- fetch_arxiv_sources_and_extract_figures.py: download_arxiv_source
DOWNLOAD_RETRIES == 3

\* how one attempt can end: the file is written whole ("ok"), session.get or
\* raise_for_status raises ("request_failed"), or open / f.write raises
\* after the file was created ("write_failed")
AttemptOutcomes == {"ok", "request_failed", "write_failed"}

InitSrc ==
    /\ pc = "src_next"
    /\ StartOfRun(NoFile, {})
    /\ kx = <<>> /\ ky = <<>> /\ kz = <<>>
    /\ NoStreams
    /\ hit_meta = <<>>
    /\ hit_out = EmptyDict
    /\ cacheIO = <<>>
    /\ slept = "none"
    /\ NoDoe
    /\ src_n \in 1..MaxPapers
    /\ src_k = 0
    /\ attempt = 0
    /\ tries = <<>>
    /\ dl = "none"
    /\ tempd = "none"
    /\ tarball = "absent"
    /\ results = <<>>

\* main, line 295, and extract_from_arxiv, lines 169-172: the next paper,
\* its temporary directory and the call of download_arxiv_source
StartPaper ==
    /\ pc = "src_next"
    /\ src_k < src_n
    /\ tempd' = "made"
    /\ tarball' = "absent"
    /\ attempt' = 0
    /\ tries' = <<>>
    /\ dl' = "running"
    /\ pc' = "src_try"
    /\ UNCHANGED <<mainVars, keyVars, dedupVars, hitVars, cacheIO, slept, doeVars,
                   src_n, src_k, results>>

\* a retry loop over range(1, DOWNLOAD_RETRIES): one attempt short
DownloadAttemptShort ==
    /\ pc = "src_try"
    /\ attempt < DOWNLOAD_RETRIES - 1
    /\ \E outcome \in AttemptOutcomes :
         /\ attempt' = attempt + 1
         /\ tries' = Append(tries, outcome)
         /\ tarball' = CASE outcome = "ok"           -> "complete"
                          [] outcome = "write_failed" -> "partial"
                          [] OTHER                    -> tarball
         /\ dl' = IF outcome = "ok" THEN "True"
                  ELSE IF attempt' = DOWNLOAD_RETRIES - 1 THEN "False"
                  ELSE "running"
         /\ pc' = IF dl' = "running" THEN "src_try" ELSE "src_after"
    /\ UNCHANGED <<mainVars, keyVars, dedupVars, hitVars, cacheIO, slept, doeVars,
                   src_n, src_k, tempd, results>>

\* download_arxiv_source, lines 65-78: one iteration of the loop over
\* attempt; the return True of a successful attempt, and the return False
\* that follows the last failed attempt, are part of it
DownloadAttempt ==
    /\ pc = "src_try"
    /\ attempt < DOWNLOAD_RETRIES
    /\ \E outcome \in AttemptOutcomes :
         /\ attempt' = attempt + 1
         /\ tries' = Append(tries, outcome)
         /\ tarball' = CASE outcome = "ok"           -> "complete"
                          [] outcome = "write_failed" -> "partial"
                          [] OTHER                    -> tarball
         /\ dl' = IF outcome = "ok" THEN "True"
                  ELSE IF attempt' = DOWNLOAD_RETRIES THEN "False"
                  ELSE "running"
         /\ pc' = IF dl' = "running" THEN "src_try" ELSE "src_after"
    /\ UNCHANGED <<mainVars, keyVars, dedupVars, hitVars, cacheIO, slept, doeVars,
                   src_n, src_k, tempd, results>>

\* extract_from_arxiv, lines 173-290, after download_arxiv_source returned:
\* with False the paper is skipped; with True the archive is unpacked and
\* searched, which ends with None or with the paper's entries.  Every path
\* calls shutil.rmtree(tempd, ignore_errors=True) before it returns.
FinishPaper ==
    /\ pc = "src_after"
    /\ \E res \in IF dl = "False" THEN {"None"} ELSE {"None", "entries"} :
         results' = Append(results, res)
    /\ tempd' = "removed"
    /\ tarball' = "absent"
    /\ src_k' = src_k + 1
    /\ pc' = "src_next"
    /\ UNCHANGED <<mainVars, keyVars, dedupVars, hitVars, cacheIO, slept, doeVars,
                   src_n, attempt, tries, dl>>

\* main, lines 300-305: every identifier was taken; figures.json is written
FinishPapers ==
    /\ pc = "src_next"
    /\ src_k = src_n
    /\ pc' = "src_done"
    /\ UNCHANGED <<mainVars, keyVars, dedupVars, sideVars>>

NextSrc ==
    \/ StartPaper
    \/ DownloadAttempt
    \/ FinishPaper
    \/ FinishPapers

SpecSrc == InitSrc /\ [][NextSrc]_vars

\* the process runs on as long as it has a step to take
SpecSrcLive == SpecSrc /\ WF_vars(NextSrc)

\* ================================================================ claims
\* positions of the entries held in year_buckets
Held == {p \in (DOMAIN year_buckets) \X (1..Cardinality(Feed)) :
            p[2] <= Len(year_buckets[p[1]])}

HeldEntry(p) == year_buckets[p[1]][p[2]]

\* the run went through the enrichment branch (args.no_inspire false)
EnrichRun == pc \in {"build", "batch", "attach", "dump"} \/ saveStatus # "none"

\* the batch loop of an enrichment run is over
BatchesDone == pc \in {"attach", "dump"} \/ saveStatus # "none"

\* keys of the entries of the selected years
SelectedKeys == {Norm(HeldEntry(p).id) : p \in {q \in Held : q[1] \in years_to_write}}

\* C1: at most one record per IdentityKey (identifier without its version
\* suffix) is retained in the year buckets.
C1_OneRecordPerKey ==
    \A p \in Held : \A q \in Held :
        p # q => Norm(HeldEntry(p).id) # Norm(HeldEntry(q).id)

\* C2: a key that has an entry in the cache when it is loaded, empty or not,
\* is not put in the list of keys to enrich and is not sent in a batch query.
C2_CachedKeyNotRequeried ==
    \A k \in DOMAIN cacheAtLoad : k \notin Range(arxiv_to_enrich) /\ k \notin queried

\* C3: the keys of a batch whose query failed get no cache entry in the run:
\* they are absent from the in-memory cache and from the cache that is saved.
C3_FailedBatchKeysStayAbsent ==
    \A k \in failedKeys :
        /\ k \notin DOMAIN inspire_cache
        /\ saveStatus = "saved" => k \notin DOMAIN load_inspire_cache(disk)

\* C4: a key whose batch query failed in the previous run is, when the run
\* selects its record again, in the list of keys to enrich and is sent in a
\* batch query.
C4_FailedKeyRetriedNextRun ==
    BatchesDone =>
        \A k \in prevFailed :
            k \in SelectedKeys => k \in Range(arxiv_to_enrich) /\ k \in queried

C4_Witness ==
    /\ pc = "attach"
    /\ \E k \in prevFailed : k \in SelectedKeys /\ k \in queried

\* positions of the hits of the last batch that map to key k
HitsFor(k) ==
    {n \in 1..Len(lastBatch.hits) :
        /\ "arxiv" \in DOMAIN lastBatch.hits[n]
        /\ Norm(lastBatch.hits[n].arxiv) = k}

\* C5: after a batch query that succeeded every key of the batch has a cache
\* entry: the result of the (last) hit whose normalized arXiv identifier is
\* the key, or the empty result when no hit maps to the key.
C5_SuccessfulBatchFillsCache ==
    lastBatch.outcome = "ok" =>
        \A k \in Range(lastBatch.keys) :
            /\ k \in DOMAIN inspire_cache
            /\ IF HitsFor(k) = {}
               THEN DOMAIN inspire_cache[k] = {}
               ELSE inspire_cache[k] = HitOut(lastBatch.hits[Max(HitsFor(k))])

C5_Witness ==
    /\ lastBatch.outcome = "ok"
    /\ \E k \in Range(lastBatch.keys) : \E n \in HitsFor(k) :
          lastBatch.hits[n].arxiv # k /\ DOMAIN inspire_cache[k] # {}
    /\ \E k \in Range(lastBatch.keys) : HitsFor(k) = {}

\* C6: when save_inspire_cache fails, or is interrupted while it writes, the
\* file still holds what it held before the save began.
C6_FailedSaveKeepsFile ==
    saveStatus \in {"open_failed", "writing", "write_failed"} =>
        load_inspire_cache(disk) = load_inspire_cache(diskAtSave)

\* C7: every key of the cache at load is in the mapping passed to (and
\* written by) save_inspire_cache, and every result that was non-empty at
\* load is passed unchanged.
Keeps(m) ==
    \A k \in DOMAIN cacheAtLoad :
        /\ k \in DOMAIN m
        /\ DOMAIN cacheAtLoad[k] # {} => m[k] = cacheAtLoad[k]

C7_LoadedEntriesKept ==
    /\ EnrichRun => Keeps(inspire_cache)
    /\ saveStatus = "saved" => Keeps(load_inspire_cache(disk))

C7_Witness ==
    /\ pc = "dump"
    /\ failedKeys # {}
    /\ \E k \in DOMAIN cacheAtLoad : k \in SelectedKeys /\ DOMAIN cacheAtLoad[k] # {}
    /\ \E k \in DOMAIN cacheAtLoad : k \in queried

\* the record the merge has to yield for ent
Merged(ent) ==
    IF Norm(ent.id) \in DOMAIN inspire_cache /\ DOMAIN inspire_cache[Norm(ent.id)] # {}
    THEN [id |-> ent.id, published |-> ent.published, categories |-> ent.categories,
          inspire |-> inspire_cache[Norm(ent.id)]]
    ELSE ent

\* C8: a written record is the original plus the field "inspire" holding the
\* cached result when that result is present and non-empty, and is the
\* original, without the field, when the result is absent or empty.
C8_MergeResult ==
    BatchesDone =>
        \A y \in DOMAIN year_files :
            LET pubs == year_files[y].publications
                orig == Bucket(year_buckets, y)
            IN  /\ Len(pubs) = Len(orig)
                /\ Range(pubs) = {Merged(orig[n]) : n \in 1..Len(orig)}

C8_Witness ==
    /\ pc = "dump"
    /\ \E y \in DOMAIN year_files :
          \E n \in 1..Len(year_files[y].publications) :
             "inspire" \in DOMAIN year_files[y].publications[n]
    /\ \E y \in DOMAIN year_files :
          \E n \in 1..Len(year_files[y].publications) :
             /\ "inspire" \notin DOMAIN year_files[y].publications[n]
             /\ Norm(year_files[y].publications[n].id) \in DOMAIN inspire_cache

\* C9: the attachment step leaves every record stored in year_buckets as it
\* was: the field is added to a copy.
C9_MergeKeepsInput == [][pc = "attach" => year_buckets' = year_buckets]_vars

C9_Witness ==
    /\ pc = "attach"
    /\ \E y \in DOMAIN year_files :
          /\ y \in DOMAIN year_buckets
          /\ \E n \in 1..Len(year_files[y].publications) :
                "inspire" \in DOMAIN year_files[y].publications[n]
          /\ \A n \in 1..Len(year_buckets[y]) :
                DOMAIN year_buckets[y][n] = {"id", "published", "categories"}

\* C10: normalizing a normalized identifier gives the normalized identifier.
C10_KeyIdempotent == pc = "keyed" => kz = ky

C10_Witness ==
    /\ pc = "keyed"
    /\ Cardinality({n \in 1..Len(kx) : kx[n] = "v"}) >= 2
    /\ ky # kx
    /\ ky # <<>>

\* positions of a version marker in x: a "v" followed by digits, with no
\* slash behind it (it stands in the last path segment)
MarkersOf(x) ==
    {n \in 1..Len(x) :
        /\ x[n] = "v"
        /\ n < Len(x)
        /\ x[n + 1] = "2"
        /\ \A m \in (n + 1)..Len(x) : x[m] # "a/"}

Min(S) == CHOOSE x \in S : \A y \in S : x <= y

\* the key the rule of the specification gives
KeyByRule(x) == IF MarkersOf(x) = {} THEN x ELSE SubSeq(x, 1, Min(MarkersOf(x)) - 1)

\* C11: the key is the part of the identifier before its version marker (a
\* "v" followed by digits, after the slash-delimited segments) and is the
\* whole identifier when it has no version marker.
C11_KeyIsPartBeforeMarker == pc = "keyed" => ky = KeyByRule(kx)

C13_UnreadableCacheIsEmpty ==
    [][(pc = "inspire" /\ pc' # "plain" /\ disk.kind # "json")
          => (pc' = "build" /\ inspire_cache' = EmptyDict)]_vars

C13_Witness ==
    /\ pc = "attach"
    /\ disk.kind = "partial"
    /\ cacheAtLoad = EmptyDict
    /\ queried # {}
    /\ writeLog # <<>>

\* the year the rule gives for a timestamp
YearByRule(pub) ==
    IF IntParses(First4(pub)) THEN IntValue(First4(pub)) ELSE CurrentYear

\* positions of the stream whose entry the deduplicator has to absorb: a
\* non-empty id, a hep-lat category, and no earlier hep-lat entry of that id
Absorbable(l, upto) ==
    {n \in 1..upto :
        /\ l[n].id # <<>>
        /\ is_hep_lat(l[n])
        /\ \A m \in 1..(n - 1) : ~(l[m].id = l[n].id /\ is_hep_lat(l[m]))}

\* positions of year_buckets that hold entry e
PlacesOf(e) ==
    {p \in (DOMAIN year_buckets) \X (1..MaxStream) :
        p[2] <= Len(year_buckets[p[1]]) /\ year_buckets[p[1]][p[2]] = e}

\* C14: every absorbed record is in exactly one year bucket, that of the
\* integer its first four timestamp characters parse to, or that of the
\* current year when they do not parse; no record is rejected for its
\* timestamp.
C14_OneBucketByYear ==
    \A n \in Absorbable(stream, idx) :
        /\ Cardinality(PlacesOf(stream[n])) = 1
        /\ \A p \in PlacesOf(stream[n]) : p[1] = YearByRule(stream[n].published)

C14_Witness ==
    /\ idx = MaxStream
    /\ \E n \in Absorbable(stream, idx) :
          stream[n].published = <<>> /\ PlacesOf(stream[n]) # {}
    /\ \E n \in Absorbable(stream, idx) :
          stream[n].published = TBad /\ PlacesOf(stream[n]) # {}
    /\ \E n \in Absorbable(stream, idx) :
          stream[n].published = T0301 /\ PlacesOf(stream[n]) # {}

\* keys of the entries of a stream that pass the filters of add_entry
KeysOf(l) == {Norm(l[n].id) : n \in {m \in 1..Len(l) : l[m].id # <<>> /\ is_hep_lat(l[m])}}

\* how often add_entry returned True for an entry of key k
TimesAbsorbed(l, log, k) ==
    Cardinality({n \in 1..Len(log) : log[n] /\ Norm(l[n].id) = k})

\* C15: two orderings of one stream end with the same set of seen keys, and
\* add_entry returns True exactly once for each key.
C15_OrderIndependentOncePerKey ==
    (pc = "feed" /\ idx = Len(stream)) =>
        /\ {Norm(x) : x \in seen} = {Norm(x) : x \in seen2}
        /\ \A k \in KeysOf(stream) :
              /\ TimesAbsorbed(stream, added, k) = 1
              /\ TimesAbsorbed(stream2, added2, k) = 1

\* C16: in every per-year output the records stand in descending order of
\* their publication timestamp, compared as strings.
C16_YearFilesDescending ==
    \A y \in DOMAIN year_files :
        LET pubs == year_files[y].publications
        IN  /\ Len(pubs) = Len(Bucket(year_buckets, y))
            /\ \A n \in 1..(Len(pubs) - 1) :
                  ~StrLess(pubs[n].published, pubs[n + 1].published)

C16_Witness ==
    /\ 2020 \in DOMAIN year_files
    /\ Len(year_buckets[2020]) = 3
    /\ year_buckets[2020][1].published = T0301
    /\ year_buckets[2020][2].published = T1115
    /\ year_buckets[2020][3].published = T0101
    /\ year_files[2020].publications[1].published = T1115
    /\ year_files[2020].publications[2].published = T0301
    /\ year_files[2020].publications[3].published = T0101

\* C17: the top-N output holds the min(N, total) records of the selected
\* years with the greatest timestamps, in descending order, and no record of
\* a year that was not selected.
C17_TopNMostRecent ==
    pc = "done" =>
        LET pubs  == top_file.publications
            total == Len(all_entries)
        IN  /\ Len(pubs) = (IF top_n < total THEN top_n ELSE total)
            /\ Cardinality(Range(pubs)) = Len(pubs)
            /\ Range(pubs) \subseteq Range(all_entries)
            /\ Range(all_entries) =
                   UNION {Range(year_files[y].publications) : y \in years_to_write}
            /\ \A n \in 1..(Len(pubs) - 1) :
                  ~StrLess(pubs[n].published, pubs[n + 1].published)
            /\ \A e \in Range(all_entries) \ Range(pubs) : \A q \in Range(pubs) :
                  ~StrLess(q.published, e.published)
            /\ \A q \in Range(pubs) : YearByRule(q.published) \in years_to_write

C17_Witness ==
    /\ pc = "done"
    /\ top_n = 1
    /\ Len(all_entries) = 2
    /\ Len(top_file.publications) = 1
    /\ \E y \in DOMAIN year_buckets : y \notin years_to_write

\* the years for which a per-year output was written, and how often
YearsWritten == {writeLog[n].year : n \in {m \in 1..Len(writeLog) : writeLog[m].file = "year"}}

TimesWritten(y) ==
    Cardinality({n \in 1..Len(writeLog) : writeLog[n].file = "year" /\ writeLog[n].year = y})

\* C18: the years written are the requested year, or START..END, or the
\* floor year up to the current year, or, without a selection, the years
\* that received records; each of them is written exactly once.
C18_YearsWrittenAsRequested ==
    pc = "done" =>
        LET want == CASE yearArgs.mode = "year"  -> {yearArgs.a}
                      [] yearArgs.mode = "range" -> yearArgs.a..yearArgs.b
                      [] yearArgs.mode = "all"   -> yearArgs.a..CurrentYear
                      [] OTHER                   -> DOMAIN year_buckets
        IN  /\ YearsWritten = want
            /\ \A y \in want : TimesWritten(y) = 1

\* C19: a failed arXiv query adds no record and the loop goes on with the
\* next author; a run that ends has queried every author and has written
\* every per-year output and, last, the top-N output.
C19_AuthorFailureSkipsAuthor ==
    /\ [][pc = "authors" =>
             /\ idx' = idx + 1
             /\ pc' = (IF idx + 1 >= names THEN "years" ELSE "authors")
             /\ lastQuery' = "fail" => (seen' = seen /\ year_buckets' = year_buckets)]_vars
    /\ [](pc = "done" =>
             /\ YearsWritten = years_to_write
             /\ Len(writeLog) = Cardinality(years_to_write) + 1
             /\ writeLog[Len(writeLog)].file = "top")

C19_Witness ==
    /\ pc = "authors"
    /\ lastQuery = "fail"
    /\ idx = 1
    /\ names = 2

\* C20: when no members file is found the run ends with exit status 2 and
\* has issued no query and written no output.
C20_NoMembersAborts ==
    membersFile = "missing" =>
        /\ pc = "exit2"
        /\ idx = 0
        /\ seen = {}
        /\ queried = {}
        /\ writeLog = <<>>
        /\ year_files = EmptyDict
        /\ saveStatus = "none"

C20_Witness ==
    /\ pc = "exit2"
    /\ membersFile = "missing"
    /\ disk.kind = "json"

\* the integers a citation structure of the metadata holds: the value of a
\* field whose name contains "citation" or "cited", or a member of that value
CitationInts(meta) ==
    {meta[n][2].v : n \in {m \in 1..Len(meta) :
                              NamesCitation(meta[m][1]) /\ meta[m][2].t = "int"}}
    \cup UNION {{meta[n][2].items[j][2].v :
                    j \in {q \in 1..Len(meta[n][2].items) : meta[n][2].items[q][2].t = "int"}} :
                n \in {m \in 1..Len(meta) : NamesCitation(meta[m][1])}}

\* the explicit integer field citation_count, as a 0/1-list
ExplicitCount(meta) ==
    LET got == Get(meta, NCitationCount)
    IN  IF got # <<>> /\ got[1].t = "int" THEN <<got[1].v>> ELSE <<>>

\* C21: the citation count of a hit's result is the explicit integer field
\* citation_count when the metadata has it; otherwise an integer of a nested
\* citation structure when there is one; otherwise the result has no
\* citation count (and no zero is put in its place).
C21_CitationCountPriority ==
    pc = "hitdone" =>
        LET res == hit_out[<<"1111.2222">>]
        IN  IF ExplicitCount(hit_meta) # <<>>
            THEN "citation_count" \in DOMAIN res
                 /\ res.citation_count = ExplicitCount(hit_meta)[1]
            ELSE IF CitationInts(hit_meta) # {}
            THEN "citation_count" \in DOMAIN res
                 /\ res.citation_count \in CitationInts(hit_meta)
            ELSE "citation_count" \notin DOMAIN res

\* the entry add_entry is about to be called with
Candidate == stream[idx + 1]

\* C22: a candidate whose key was already seen, or none of whose category
\* tags contains hep-lat, is rejected: add_entry returns False and changes
\* neither the seen set nor a year bucket.  Every record in a bucket carries
\* a hep-lat category, and a record in a bucket is never replaced.
C22_RejectedLeavesStateAlone ==
    /\ [][(pc = "feed" /\ idx < Len(stream)
            /\ (Norm(Candidate.id) \in {Norm(x) : x \in seen} \/ ~is_hep_lat(Candidate)))
          => /\ added' = Append(added, FALSE)
             /\ seen' = seen
             /\ year_buckets' = year_buckets]_vars
    /\ [](\A y \in DOMAIN year_buckets : \A n \in 1..Len(year_buckets[y]) :
              is_hep_lat(year_buckets[y][n]))
    /\ [][\A y \in DOMAIN year_buckets :
             /\ y \in DOMAIN year_buckets'
             /\ Len(year_buckets'[y]) >= Len(year_buckets[y])
             /\ SubSeq(year_buckets'[y], 1, Len(year_buckets[y])) = year_buckets[y]]_vars

\* C23: the keys to enrich are cut into consecutive batches in list order;
\* a batch has between 1 and batch_size keys (batch_size is at least 1), a
\* batch gets one query, and no key is sent in a query twice in a run: the
\* list holds no key twice and every key of it is in exactly one batch.
C23_BatchesPartitionList ==
    /\ [](pc = "batch" =>
             /\ batch_size >= 1
             /\ i < Len(arxiv_to_enrich)
             /\ queried = Range(SubSeq(arxiv_to_enrich, 1, i))
             /\ Cardinality(Range(arxiv_to_enrich)) = Len(arxiv_to_enrich))
    /\ [][pc = "batch" =>
             LET batch == lastBatch'.keys
             IN  /\ Len(batch) >= 1
                 /\ Len(batch) <= batch_size
                 /\ batch = SubSeq(arxiv_to_enrich, i + 1, i + Len(batch))
                 /\ Range(batch) \cap queried = {}
                 /\ queried' = queried \cup Range(batch)
                 /\ pc' = "batch" => (Len(batch) = batch_size /\ i' = i + Len(batch))
                 /\ pc' # "batch" => (pc' = "attach" /\ queried' = Range(arxiv_to_enrich))]_vars

C23_Witness ==
    /\ pc = "batch"
    /\ i = 1
    /\ batch_size = 1
    /\ Len(arxiv_to_enrich) = 2
    /\ lastBatch.keys = <<arxiv_to_enrich[1]>>
    /\ \E p \in Held : \E q \in Held :
          p # q /\ Norm(HeldEntry(p).id) = Norm(HeldEntry(q).id) /\ p[1] \in years_to_write

\* C24: a run with enrichment reads the cache file once, before the first
\* batch query, and writes it once, after the last batch was processed; no
\* step before the save changes the file, a batch step least of all.
C24_CacheReadOnceWrittenOnce ==
    /\ [](EnrichRun =>
             cacheIO = (IF saveStatus = "none" THEN <<"read">> ELSE <<"read", "write">>))
    /\ [](pc = "done" => cacheIO \in {<<>>, <<"read", "write">>})
    /\ [][cacheIO' = Append(cacheIO, "read") => (pc = "inspire" /\ queried = {})]_vars
    /\ [][cacheIO' = Append(cacheIO, "write") =>
             (pc = "attach" /\ yleft = <<>> /\ queried = Range(arxiv_to_enrich))]_vars
    /\ [][pc = "batch" => (disk' = disk /\ cacheIO' = cacheIO)]_vars
    /\ [][disk' # disk => (cacheIO # cacheIO' \/ pc = "dump")]_vars

C24_Witness ==
    /\ pc = "done"
    /\ cacheIO = <<"read", "write">>
    /\ saveStatus = "saved"
    /\ Cardinality(queried) = 2
    /\ load_inspire_cache(disk) # cacheAtLoad
    /\ DOMAIN cacheAtLoad # {}

\* C25: in every output written, per-year and top-N, the field count is the
\* number of records of the output's list publications.
C25_CountIsListLength ==
    /\ \A y \in DOMAIN year_files :
          year_files[y].count = Len(year_files[y].publications)
    /\ pc = "done" => top_file.count = Len(top_file.publications)

\* C26: when an author query is about to be issued after an earlier one, the
\* delay args.delay was executed in between, and likewise args.inspire_batch_delay
\* between two batch queries; the delay follows a call that failed as it
\* follows one that succeeded.
C26_DelayBetweenCalls ==
    /\ []((pc = "authors" /\ idx > 0) => slept = "delay")
    /\ []((pc = "batch" /\ i > 0) => slept = "batch_delay")
    /\ [][pc = "authors" => slept' = "delay"]_vars
    /\ [][pc = "batch" => slept' = "batch_delay"]_vars

C26_Witness ==
    /\ pc = "batch"
    /\ i > 0
    /\ lastBatch.outcome \in {"fail", "raise"}
    /\ slept = "batch_delay"
    /\ failedKeys # {}

\* the run took the branch of --no-inspire
PlainRun == pc = "plain" \/ (pc = "done" /\ saveStatus = "none")

\* a record without its enrichment field
Strip(e) == [f \in DOMAIN e \ {"inspire"} |-> e[f]]

StripAll(l) == [n \in 1..Len(l) |-> Strip(l[n])]

RECURSIVE SortedOfYears(_)
\* the sorted records of the years ys, year after year
SortedOfYears(ys) ==
    IF ys = <<>> THEN <<>>
    ELSE SortByPublished(Bucket(year_buckets, Head(ys))) \o SortedOfYears(Tail(ys))

\* C27: a run with --no-inspire sends no batch query, neither reads nor
\* writes the cache file, and writes no record with the field "inspire"; its
\* outputs and those of a run with enrichment list the same records in the
\* same order: both are, the field "inspire" apart, the sorted buckets and
\* the first top_n of all selected records sorted.
C27_NoInspireSameRecords ==
    /\ [](PlainRun =>
             /\ queried = {}
             /\ cacheIO = <<>>
             /\ DOMAIN inspire_cache = {}
             /\ \A y \in DOMAIN year_files :
                   year_files[y].publications = StripAll(year_files[y].publications)
             /\ top_file.publications = StripAll(top_file.publications))
    /\ [][(pc = "inspire" /\ pc' = "plain") \/ pc = "plain" => disk' = disk]_vars
    /\ [](pc = "done" =>
             /\ DOMAIN year_files = years_to_write
             /\ \A y \in years_to_write :
                   StripAll(year_files[y].publications)
                       = SortByPublished(Bucket(year_buckets, y))
             /\ StripAll(top_file.publications)
                    = Take(SortByPublished(SortedOfYears(SortedDesc(years_to_write))), top_n))

C27_Witness ==
    /\ pc = "done"
    /\ saveStatus = "none"
    /\ disk.kind = "json"
    /\ \E k \in SelectedKeys : HasResult(load_inspire_cache(disk), k)
    /\ Len(top_file.publications) = 2
    /\ 2020 \in DOMAIN year_files
    /\ Len(year_files[2020].publications) = 2

\* the stripped title of item n
TitleOf(n) == StripTitle(doe_items[n].title)

\* item n is the first item that carries its title
FirstWithTitle(n) == \A m \in 1..(n - 1) : TitleOf(m) # TitleOf(n)

\* the fetches of the page of item n
FetchesOf(n) == {j \in 1..Len(fetched) : fetched[j].item = n}

\* C28: the page of an item is fetched at most once, and only for the first
\* item that carries a (non-empty) title; the items written to the output
\* are, in order, the first items of their title whose image download
\* succeeded, so no two written items share a title and each has an
\* image_file that is not null.
C28_OncePerTitleWrittenIffImage ==
    /\ \A n \in 1..Len(doe_items) :
          /\ Cardinality(FetchesOf(n)) <= 1
          /\ FetchesOf(n) # {} => (TitleOf(n) # <<>> /\ FirstWithTitle(n) /\ n <= doe_i)
    /\ \A a, b \in 1..Len(fetched) :
          TitleOf(fetched[a].item) = TitleOf(fetched[b].item) => a = b
    /\ pc = "doedone" =>
          /\ \A n \in 1..Len(doe_items) :
                (\E w \in 1..Len(doe_json) : doe_json[w].title = TitleOf(n)
                                               /\ doe_json[w].link = doe_items[n].link
                                               /\ FirstWithTitle(n))
                  <=> (/\ TitleOf(n) # <<>>
                       /\ FirstWithTitle(n)
                       /\ \E j \in FetchesOf(n) : fetched[j].outcome = "ok")
          /\ \A w \in 1..Len(doe_json) :
                /\ doe_json[w].image_file # None
                /\ \E n \in 1..Len(doe_items) :
                      FirstWithTitle(n) /\ TitleOf(n) = doe_json[w].title
                /\ \A x \in 1..Len(doe_json) : doe_json[x].title = doe_json[w].title => x = w

C28_Witness ==
    /\ pc = "doedone"
    /\ Len(doe_items) = 3
    /\ doe_items[1].title = <<"A", " ">>
    /\ doe_items[2].title = <<"A">>
    /\ doe_items[2].link # ""
    /\ Len(fetched) = 2
    /\ fetched[1].outcome = "dlfail"
    /\ Len(doe_json) = 1
    /\ doe_json[1].title = <<"B">>

\* positions of the attempts for the paper that failed
FailedTries == {n \in 1..Len(tries) : tries[n] # "ok"}

\* C29: download_arxiv_source makes at most DOWNLOAD_RETRIES attempts and
\* returns: True at the first attempt that succeeds, with no attempt after
\* it, and False exactly when DOWNLOAD_RETRIES attempts have failed;
\* extract_from_arxiv then removes the temporary directory and returns None.
C29_DownloadRetriesBounded ==
    /\ [](/\ attempt <= DOWNLOAD_RETRIES
          /\ Len(tries) = attempt
          /\ \A n \in 1..(Len(tries) - 1) : tries[n] # "ok")
    /\ [](dl = "running" => (pc = "src_try" /\ attempt < DOWNLOAD_RETRIES))
    /\ [](dl = "True" <=> (tries # <<>> /\ tries[Len(tries)] = "ok"))
    /\ [](dl = "False" <=> Cardinality(FailedTries) = DOWNLOAD_RETRIES)
    /\ [][pc = "src_after" => attempt' = attempt]_vars
    /\ [][(pc = "src_after" /\ dl = "False")
             => (tempd' = "removed" /\ results' = Append(results, "None"))]_vars
    /\ (pc = "src_try") ~> (pc = "src_after")

C29_Witness ==
    /\ pc = "src_next"
    /\ src_k = 2
    /\ dl = "False"
    /\ tries = <<"request_failed", "write_failed", "request_failed">>
    /\ results = <<"entries", "None">>
    /\ tempd = "removed"

====
